---- MODULE Spec2Model ----
(***************************************************************************)
(* Model of libraries/config/version.py (el7toel8 system upgrade           *)
(* repository): version matching against a declarative list of supported   *)
(* versions, release matching, and the supported-version check.            *)
(*                                                                         *)
(* Python values are records [type, val].  A Python string is the sequence *)
(* of its characters, each character a one-character TLA+ string, so that  *)
(* str.split, str.isdigit and int() are computed as Python computes them.  *)
(***************************************************************************)
EXTENDS Integers, Sequences, FiniteSets, TLC

VARIABLES pc, fn, match_list, detected, configuration, allowed_releases,
          release, env, facts, result, warnings

vars == <<pc, fn, match_list, detected, configuration, allowed_releases,
          release, env, facts, result, warnings>>

-----------------------------------------------------------------------------
(* Bounds of the model. *)

MaxListLen == 2

MaxFacts == 2

-----------------------------------------------------------------------------
(* Python values. *)

Str(s) == [type |-> "str", val |-> s]

IntVal(s) == [type |-> "int", val |-> s]

None == [type |-> "NoneType", val |-> <<>>]

Bool(b) == [type |-> "bool", val |-> b]

List(l) == [type |-> "list", val |-> l]

Tuple(l) == [type |-> "tuple", val |-> l]

Dict(items) == [type |-> "dict", val |-> items]

(* an OSReleaseFacts message: only the two fields the module reads *)
OSReleaseFacts(rid, vid) ==
    [type |-> "OSReleaseFacts", val |-> <<>>, release_id |-> rid, version_id |-> vid]

(* outcome of a call: a returned value or a raised exception *)
Return(v) == [exc |-> "none", val |-> v]

Raise(e) == [exc |-> e, val |-> None]

(* six.string_types *)
string_types == {"str"}

(* bool(v): Python truthiness of the values the module tests *)
truthy(v) ==
    CASE v.type = "NoneType" -> FALSE
      [] v.type = "bool" -> v.val
      [] v.type \in {"str", "list", "tuple", "dict"} -> Len(v.val) > 0
      [] OTHER -> TRUE

-----------------------------------------------------------------------------
(* str methods and int(), on sequences of characters. *)

(* the decimal digits (str.isdecimal): one row per script, the digits 0 to *)
(* 9 in order; int() reads them all                                        *)
DecimalDigitRows ==
    {
      <<"0", "1", "2", "3", "4", "5", "6", "7", "8", "9">>,
      <<"۰", "۱", "۲", "۳", "۴", "۵", "۶", "۷", "۸", "۹">>,
      <<"߀", "߁", "߂", "߃", "߄", "߅", "߆", "߇", "߈", "߉">>,
      <<"০", "১", "২", "৩", "৪", "৫", "৬", "৭", "৮", "৯">>,
      <<"૦", "૧", "૨", "૩", "૪", "૫", "૬", "૭", "૮", "૯">>,
      <<"௦", "௧", "௨", "௩", "௪", "௫", "௬", "௭", "௮", "௯">>,
      <<"೦", "೧", "೨", "೩", "೪", "೫", "೬", "೭", "೮", "೯">>,
      <<"෦", "෧", "෨", "෩", "෪", "෫", "෬", "෭", "෮", "෯">>,
      <<"໐", "໑", "໒", "໓", "໔", "໕", "໖", "໗", "໘", "໙">>,
      <<"႐", "႑", "႒", "႓", "႔", "႕", "႖", "႗", "႘", "႙">>,
      <<"០", "១", "២", "៣", "៤", "៥", "៦", "៧", "៨", "៩">>,
      <<"᧐", "᧑", "᧒", "᧓", "᧔", "᧕", "᧖", "᧗", "᧘", "᧙">>,
      <<"᪀", "᪁", "᪂", "᪃", "᪄", "᪅", "᪆", "᪇", "᪈", "᪉">>,
      <<"᪐", "᪑", "᪒", "᪓", "᪔", "᪕", "᪖", "᪗", "᪘", "᪙">>,
      <<"᮰", "᮱", "᮲", "᮳", "᮴", "᮵", "᮶", "᮷", "᮸", "᮹">>,
      <<"꣐", "꣑", "꣒", "꣓", "꣔", "꣕", "꣖", "꣗", "꣘", "꣙">>,
      <<"꧐", "꧑", "꧒", "꧓", "꧔", "꧕", "꧖", "꧗", "꧘", "꧙">>,
      <<"꧰", "꧱", "꧲", "꧳", "꧴", "꧵", "꧶", "꧷", "꧸", "꧹">>,
      <<"꯰", "꯱", "꯲", "꯳", "꯴", "꯵", "꯶", "꯷", "꯸", "꯹">>
    }

DecimalDigits == {r[i] : r \in DecimalDigitRows, i \in 1..10}

(* characters str.isdigit() accepts that are not decimal digits: int()     *)
(* raises ValueError on them                                               *)
OtherDigits ==
    {
      "²", "³", "¹", "᧚", "₀", "₁", "₂", "₃", "₄", "₅",
      "₆", "₇", "₈", "₉", "⒈", "⒉", "⒊", "⒋", "⒌", "⒍",
      "⒎", "⒏", "⒐", "⓪", "⓵", "⓶", "⓷", "⓸", "⓹", "⓺",
      "⓻", "⓼", "⓽", "⓿", "➀", "➁", "➂", "➃", "➄", "➅",
      "➆", "➇", "➈", "➊", "➋", "➌", "➍", "➎", "➏", "➐",
      "➑", "➒"
    }

(* the characters c with c.isdigit() (those a string literal can hold)     *)
Digits == DecimalDigits \cup OtherDigits

(* the characters c with c.isspace() (those a string literal can hold):    *)
(* the separators of str.split()                                           *)
Whitespace ==
    {
      "\t", "\n", "", "\f", "\r", "", "", "", "", " ",
      "", " ", " "
    }

(* value of a decimal digit: its place in the row of its script *)
DigitValue(c) ==
    (CHOOSE i \in 1..10 : \E r \in DecimalDigitRows : r[i] = c) - 1

(* s.isdigit(): non-empty and every character a digit *)
isdigit(s) == Len(s) > 0 /\ \A i \in 1..Len(s) : s[i] \in Digits

(* sys.get_int_max_str_digits(): the longest string of digits int() reads  *)
(* (CPython 3.11, default setting); leading zeros count                    *)
INT_MAX_STR_DIGITS == 4300

(* TRUE iff int(s) raises ValueError, for s without sign, blank or         *)
(* underscore: s is empty, holds a character that is no decimal digit, or  *)
(* is longer than the interpreter's limit                                  *)
int_raises(s) ==
    \/ Len(s) = 0
    \/ \E i \in 1..Len(s) : s[i] \notin DecimalDigits
    \/ Len(s) > INT_MAX_STR_DIGITS

(* int(s) for a string of decimal digits: base-10 value, leading zeros     *)
(* ignored (computed for values within the range of the model checker's    *)
(* integers)                                                               *)
RECURSIVE int(_)
int(s) ==
    IF Len(s) = 0 THEN 0
    ELSE 10 * int(SubSeq(s, 1, Len(s) - 1)) + DigitValue(s[Len(s)])

(* s.split(sep) for a one-character sep: always at least one segment,     *)
(* empty segments are kept                                                  *)
RECURSIVE split_sep(_, _)
split_sep(s, sep) ==
    IF \A i \in 1..Len(s) : s[i] # sep THEN <<s>>
    ELSE LET k == CHOOSE i \in 1..Len(s) :
                      s[i] = sep /\ \A j \in 1..(i - 1) : s[j] # sep
         IN  <<SubSeq(s, 1, k - 1)>> \o split_sep(SubSeq(s, k + 1, Len(s)), sep)

(* s.split(): split on runs of whitespace, no empty tokens *)
RECURSIVE split_ws(_)
split_ws(s) ==
    IF Len(s) = 0 THEN <<>>
    ELSE IF s[1] \in Whitespace THEN split_ws(Tail(s))
    ELSE LET ends == {i \in 1..Len(s) : s[i] \in Whitespace}
             k == IF ends = {} THEN Len(s) + 1
                  ELSE CHOOSE i \in ends : \A j \in ends : i <= j
         IN  <<SubSeq(s, 1, k - 1)>> \o split_ws(SubSeq(s, k, Len(s)))

-----------------------------------------------------------------------------
(* Module-level constants. *)

OP_MAP == {<<">">>, <<">", "=">>, <<"<">>, <<"<", "=">>}

(* comparison of int tuples as Python compares them: first differing       *)
(* position decides, a proper prefix is smaller                            *)
RECURSIVE tuple_lt(_, _)
tuple_lt(a, b) ==
    IF Len(b) = 0 THEN FALSE
    ELSE IF Len(a) = 0 THEN TRUE
    ELSE IF a[1] # b[1] THEN a[1] < b[1]
    ELSE tuple_lt(Tail(a), Tail(b))

(* OP_MAP[op](a, b) *)
OP_MAP_apply(op, a, b) ==
    CASE op = <<">">> -> tuple_lt(b, a)
      [] op = <<">", "=">> -> ~tuple_lt(a, b)
      [] op = <<"<">> -> tuple_lt(a, b)
      [] op = <<"<", "=">> -> ~tuple_lt(b, a)

rhel == <<"r", "h", "e", "l">>

centos == <<"c", "e", "n", "t", "o", "s">>

(* mutation: a second release in the table *)
SUPPORTED_VERSION_two_releases ==
    Dict(<< <<Str(rhel), List(<<Str(<<"7", ".", "6">>)>>)>>,
            <<Str(centos), List(<<Str(<<"7", ".", "6">>)>>)>> >>)

SUPPORTED_VERSION == Dict(<< <<Str(rhel), List(<<Str(<<"7", ".", "6">>)>>)>> >>)

-----------------------------------------------------------------------------
(* Private helpers. *)

(* TRUE iff _version_to_tuple(version) raises ValueError: the unpacking of *)
(* other than two parts, or int() of a part                                *)
_version_to_tuple_raises(version) ==
    LET parts == split_sep(version, ".")
    IN  Len(parts) # 2 \/ \E i \in 1..Len(parts) : int_raises(parts[i])

_version_to_tuple(version) ==
    LET parts == split_sep(version, ".")
    IN  <<int(parts[1]), int(parts[2])>>

(* TRUE iff _validate_versions(versions) raises ValueError; versions is a  *)
(* sequence of character sequences                                         *)
_validate_versions(versions) ==
    \E i \in 1..Len(versions) :
        LET split == split_sep(versions[i], ".")
        IN  ~(Len(split) = 2) \/ ~(\A j \in 1..Len(split) : isdigit(split[j]))

(* mutation: an empty list is not of the simple form *)
_simple_versions_nonempty(versions) ==
    Len(versions) > 0 /\ \A i \in 1..Len(versions) : Len(split_ws(versions[i])) = 1

_simple_versions(versions) ==
    \A i \in 1..Len(versions) : Len(split_ws(versions[i])) = 1

_cmp_versions(versions) ==
    LET split == [i \in 1..Len(versions) |-> split_ws(versions[i])]
    IN  IF ~(\A i \in 1..Len(split) : Len(split[i]) = 2) THEN FALSE
        ELSE \A i \in 1..Len(split) : split[i][1] \in OP_MAP

-----------------------------------------------------------------------------
(* matches_version(match_list, detected) *)

(* the for loop of the comparison branch: a constraint whose version int() *)
(* cannot read raises ValueError, the first unsatisfied constraint returns *)
(* False, falling off the end returns True                                 *)
RECURSIVE cmp_loop(_, _)
cmp_loop(strs, det) ==
    IF Len(strs) = 0 THEN Return(Bool(TRUE))
    ELSE LET op == split_ws(strs[1])[1]
             ver == split_ws(strs[1])[2]
         IN  IF _version_to_tuple_raises(ver) THEN Raise("ValueError")
             ELSE IF ~OP_MAP_apply(op, det, _version_to_tuple(ver))
                 THEN Return(Bool(FALSE))
             ELSE cmp_loop(Tail(strs), det)

(* mutation: compares the parsed versions, so that 07.6 equals 7.6 *)
simple_branch_numeric(strs, det) ==
    IF _validate_versions(strs) THEN Raise("ValueError")
    ELSE IF _version_to_tuple_raises(det)
            \/ \E i \in 1..Len(strs) : _version_to_tuple_raises(strs[i])
        THEN Raise("ValueError")
    ELSE Return(Bool(\E i \in 1..Len(strs) :
                        _version_to_tuple(strs[i]) = _version_to_tuple(det)))

(* the branch taken when _simple_versions(match_list) *)
simple_branch(strs, det) ==
    IF _validate_versions(strs) THEN Raise("ValueError")
    ELSE Return(Bool(\E i \in 1..Len(strs) : strs[i] = det))

(* the branch taken when _cmp_versions(match_list) *)
cmp_branch(strs, det) ==
    IF _version_to_tuple_raises(det) THEN Raise("ValueError")
    ELSE IF _validate_versions([i \in 1..Len(strs) |-> split_ws(strs[i])[2]])
        THEN Raise("ValueError")
    ELSE cmp_loop(strs, _version_to_tuple(det))

(* mutation: a list of neither form does not match instead of failing *)
matches_version_else_false(ml, det) ==
    IF ml.type \notin {"list", "tuple"} THEN Raise("TypeError")
    ELSE IF ~(\A i \in 1..Len(ml.val) : ml.val[i].type \in string_types)
        THEN Raise("TypeError")
    ELSE IF det.type \notin string_types THEN Raise("TypeError")
    ELSE IF _validate_versions(<<det.val>>) THEN Raise("ValueError")
    ELSE LET strs == [i \in 1..Len(ml.val) |-> ml.val[i].val]
         IN  IF _simple_versions(strs) THEN simple_branch(strs, det.val)
             ELSE IF _cmp_versions(strs) THEN cmp_branch(strs, det.val)
             ELSE Return(Bool(FALSE))

(* mutation: detected is validated as soon as it is known to be a string,  *)
(* before the elements of match_list are type-checked                      *)
matches_version_validate_first(ml, det) ==
    IF ml.type \notin {"list", "tuple"} THEN Raise("TypeError")
    ELSE IF det.type \notin string_types THEN Raise("TypeError")
    ELSE IF _validate_versions(<<det.val>>) THEN Raise("ValueError")
    ELSE IF ~(\A i \in 1..Len(ml.val) : ml.val[i].type \in string_types)
        THEN Raise("TypeError")
    ELSE LET strs == [i \in 1..Len(ml.val) |-> ml.val[i].val]
         IN  IF _simple_versions(strs) THEN simple_branch(strs, det.val)
             ELSE IF _cmp_versions(strs) THEN cmp_branch(strs, det.val)
             ELSE Raise("ValueError")

matches_version(ml, det) ==
    IF ml.type \notin {"list", "tuple"} THEN Raise("TypeError")
    ELSE IF ~(\A i \in 1..Len(ml.val) : ml.val[i].type \in string_types)
        THEN Raise("TypeError")
    ELSE IF det.type \notin string_types THEN Raise("TypeError")
    ELSE IF _validate_versions(<<det.val>>) THEN Raise("ValueError")
    ELSE LET strs == [i \in 1..Len(ml.val) |-> ml.val[i].val]
         IN  IF _simple_versions(strs) THEN simple_branch(strs, det.val)
             ELSE IF _cmp_versions(strs) THEN cmp_branch(strs, det.val)
             ELSE Raise("ValueError")

-----------------------------------------------------------------------------
(* matches_source_version and matches_target_version: ml is the tuple of   *)
(* the positional arguments, conf is                                       *)
(* api.current_actor().configuration.version                               *)

matches_source_version(ml, conf) == matches_version(ml, conf.source)

matches_target_version(ml, conf) == matches_version(ml, conf.target)

-----------------------------------------------------------------------------
(* matches_release(allowed_releases, release) *)

(* release in allowed_releases: a key of a dict, an element of a list or   *)
(* tuple                                                                   *)
contains(container, x) ==
    IF container.type = "dict"
    THEN \E i \in 1..Len(container.val) : container.val[i][1] = x
    ELSE \E i \in 1..Len(container.val) : container.val[i] = x

(* d[key] for a key the dict holds *)
getitem(d, key) ==
    d.val[CHOOSE i \in 1..Len(d.val) : d.val[i][1] = key][2]

(* mutation: no guard for an empty release or an empty collection; the    *)
(* membership test on None raises TypeError                                *)
matches_release_no_guard(allowed, rel) ==
    IF allowed.type = "NoneType" THEN Raise("TypeError")
    ELSE Return(Bool(contains(allowed, rel)))

matches_release(allowed, rel) ==
    IF ~(truthy(rel) /\ truthy(allowed)) THEN Return(Bool(FALSE))
    ELSE Return(Bool(contains(allowed, rel)))

-----------------------------------------------------------------------------
(* current_version(), over the messages api.consume(OSReleaseFacts) yields *)

(* number of warnings current_version logs *)
current_version_warnings(msgs) ==
    LET rest == IF Len(msgs) = 0 THEN <<>> ELSE Tail(msgs)
    IN  IF Len(rest) > 0 THEN 1 ELSE 0

(* mutation: the last record is returned *)
current_version_last(msgs) ==
    LET last == IF Len(msgs) = 0 THEN None ELSE msgs[Len(msgs)]
    IN  IF ~truthy(last) THEN Raise("StopActorExecutionError")
        ELSE Return(Tuple(<<last.release_id, last.version_id>>))

current_version(msgs) ==
    LET first == IF Len(msgs) = 0 THEN None ELSE Head(msgs)
    IN  IF ~truthy(first) THEN Raise("StopActorExecutionError")
        ELSE Return(Tuple(<<first.release_id, first.version_id>>))

-----------------------------------------------------------------------------
(* is_supported_version(), over os.environ and the consumed messages *)

SKIP_VAR == <<"L", "E", "A", "P", "P", "_", "S", "K", "I", "P", "_",
              "C", "H", "E", "C", "K", "_", "O", "S", "_",
              "R", "E", "L", "E", "A", "S", "E">>

(* os.getenv(name): the value, or None when the variable is not set *)
os_getenv(environ, name) ==
    IF contains(environ, Str(name)) THEN getitem(environ, Str(name)) ELSE None

(* TRUE iff is_supported_version gets as far as calling current_version *)
consults_facts(environ) == ~truthy(os_getenv(environ, SKIP_VAR))

(* mutation: only the value 1 skips the check *)
is_supported_version_only_one(environ, msgs) ==
    IF os_getenv(environ, SKIP_VAR) = Str(<<"1">>) THEN Return(Bool(TRUE))
    ELSE LET cv == current_version(msgs)
         IN  IF cv.exc # "none" THEN cv
             ELSE LET release_id == cv.val.val[1]
                      version_id == cv.val.val[2]
                  IN  IF ~matches_release(SUPPORTED_VERSION, release_id).val.val
                      THEN Return(Bool(FALSE))
                      ELSE matches_version(getitem(SUPPORTED_VERSION, release_id),
                                           version_id)

is_supported_version(environ, msgs) ==
    IF truthy(os_getenv(environ, SKIP_VAR)) THEN Return(Bool(TRUE))
    ELSE LET cv == current_version(msgs)
         IN  IF cv.exc # "none" THEN cv
             ELSE LET release_id == cv.val.val[1]
                      version_id == cv.val.val[2]
                  IN  IF ~matches_release(SUPPORTED_VERSION, release_id).val.val
                      THEN Return(Bool(FALSE))
                      ELSE matches_version(getitem(SUPPORTED_VERSION, release_id),
                                           version_id)

is_supported_version_warnings(environ, msgs) ==
    IF consults_facts(environ) THEN current_version_warnings(msgs) ELSE 0

-----------------------------------------------------------------------------
(* Inputs.  Versions are written from their numbers, so that what the code *)
(* parses can be compared with what was written.                           *)

AsciiRow == <<"0", "1", "2", "3", "4", "5", "6", "7", "8", "9">>

TamilRow == <<"௦", "௧", "௨", "௩", "௪", "௫", "௬", "௭", "௮", "௯">>

RECURSIVE Decimal(_, _)
Decimal(n, row) ==
    IF n < 10 THEN <<row[n + 1]>>
    ELSE Decimal(n \div 10, row) \o <<row[(n % 10) + 1]>>

(* a version as written: major.minor in the digits of one script,          *)
(* optionally with a leading zero                                          *)
Ver(a, b, z) == [major |-> a, minor |-> b, zero |-> z, row |-> AsciiRow]

TamilVer(a, b) == [major |-> a, minor |-> b, zero |-> FALSE, row |-> TamilRow]

VerText(v) ==
    (IF v.zero THEN <<v.row[1]>> ELSE <<>>)
        \o Decimal(v.major, v.row) \o <<".">> \o Decimal(v.minor, v.row)

(* a constraint as written: operator, one blank, version *)
Constraint(o, v) == [op |-> o, ver |-> v]

ConstraintText(c) == c.op \o <<" ">> \o VerText(c.ver)

ListedVersions == {Ver(7, 6, FALSE), Ver(7, 9, FALSE), Ver(7, 10, FALSE)}

DetectedVersions ==
    ListedVersions \cup {Ver(8, 0, FALSE), Ver(7, 6, TRUE), TamilVer(7, 6)}

SimpleVersions == ListedVersions \cup {Ver(7, 6, TRUE), TamilVer(7, 6)}

Constraints == {Constraint(o, v) : o \in OP_MAP, v \in ListedVersions}

(* strings that are not <integer>.<integer> *)
MalformedVersions ==
    { <<"7", ".", "x">>, <<"7">>, <<"7", ".", "6", ".", "1">>, <<"7", ".">>, <<>>,
      <<"7", ".", "6", "\n">>, <<"7", ".", "²">> }

(* elements that fit neither grammar, or fit one with a malformed version *)
OddElements ==
    { <<"7", ".", "x">>,
      <<"7", ".", "6", ".", "1">>,
      <<>>,
      <<" ">>,
      <<" ", "7", ".", "6">>,
      <<"<", "\t", "0", "7", ".", "9">>,
      <<">", "=", "\n", "7", ".", "6">>,
      <<"7", ".", "²">>,
      <<">", "=", " ", "7", ".", "²">>,
      <<">", "=", " ", "7", ".", "x">>,
      <<"=", "=", " ", "7", ".", "6">>,
      <<">", "=", " ", "7", ".", "6", " ", "1">> }

NonStrings == {IntVal(<<"7">>), None}

Elements ==
    {Str(VerText(v)) : v \in SimpleVersions}
        \cup {Str(ConstraintText(c)) : c \in Constraints}
        \cup {Str(s) : s \in OddElements}
        \cup {IntVal(<<"7">>)}

SeqsUpTo(S, n) == UNION {[1..k -> S] : k \in 0..n}

MatchLists ==
    {List(l) : l \in SeqsUpTo(Elements, MaxListLen)}
        \cup {Tuple(l) : l \in SeqsUpTo(Elements, 1)}
        \cup {Str(VerText(Ver(7, 6, FALSE))), None}

(* a version whose minor has one digit more than int() reads *)
LongVersion == <<"7", ".">> \o [i \in 1..(INT_MAX_STR_DIGITS + 1) |-> "1"]

(* calls with that version as detected, as element and as constraint *)
LongCalls ==
    LET long == Str(LongVersion)
        v76 == Str(VerText(Ver(7, 6, FALSE)))
        ge76 == Str(ConstraintText(Constraint(<<">", "=">>, Ver(7, 6, FALSE))))
        gt79 == Str(ConstraintText(Constraint(<<">">>, Ver(7, 9, FALSE))))
        gtLong == Str(<<">", " ">> \o LongVersion)
    IN  { <<List(<<ge76>>), long>>,
          <<List(<<v76>>), long>>,
          <<List(<<long>>), long>>,
          <<List(<<gtLong>>), v76>>,
          <<List(<<gt79, gtLong>>), v76>> }

DetectedInputs ==
    {Str(VerText(v)) : v \in DetectedVersions}
        \cup {Str(s) : s \in MalformedVersions}
        \cup NonStrings

ReleaseNames == {rhel, centos}

ReleaseInputs == {Str(r) : r \in ReleaseNames} \cup {Str(<<>>), None}

AllowedInputs ==
    {List([i \in 1..Len(l) |-> Str(l[i])]) :
        l \in SeqsUpTo(ReleaseNames \cup {<<>>}, MaxListLen)}
        \cup {Dict([i \in 1..Len(l) |-> <<Str(l[i]), List(<<>>)>>]) :
                 l \in {<<>>, <<rhel>>, <<centos>>, <<centos, rhel>>}}
        \cup {SUPPORTED_VERSION, None}

FactsMessages ==
    {OSReleaseFacts(Str(r), Str(v)) :
        r \in ReleaseNames \cup {<<>>},
        v \in {VerText(Ver(7, 6, FALSE)), VerText(Ver(7, 7, FALSE)),
               VerText(TamilVer(7, 6)), <<"7", ".", "x">>, <<"7", ".", "²">>, <<>>}}

FactsInputs == SeqsUpTo(FactsMessages, MaxFacts)

OTHER_VAR == <<"L", "A", "N", "G">>

Environs ==
    {Dict(<<>>), Dict(<< <<Str(OTHER_VAR), Str(<<"C">>)>> >>)}
        \cup {Dict(<< <<Str(SKIP_VAR), Str(v)>> >>) : v \in {<<>>, <<"0">>, <<"1">>}}

-----------------------------------------------------------------------------
(* The calls.  Each behaviour is one call of one public function: Init     *)
(* holds the arguments and the environment, the action is the call.        *)

Functions == {"matches_version", "matches_source_version",
              "matches_target_version", "matches_release", "current_version",
              "is_supported_version"}

(* positional arguments and configured versions of the two wrappers *)
WrapperArguments ==
    {Str(VerText(v)) : v \in {Ver(7, 6, FALSE), Ver(7, 9, FALSE)}}
        \cup {Str(ConstraintText(Constraint(o, Ver(7, 9, FALSE)))) :
                 o \in {<<">", "=">>, <<"<">>}}
        \cup {Str(<<"7", ".", "x">>)}

ConfiguredVersions ==
    {Str(VerText(Ver(7, 6, FALSE))), Str(VerText(Ver(8, 0, FALSE))),
     Str(<<"7", ".", "x">>)}

NoConfiguration == [source |-> None, target |-> None]

Init ==
    /\ pc = "call"
    /\ fn \in Functions
    /\ result = Return(None)
    /\ warnings = 0
    /\ IF fn = "matches_version"
       THEN \/ match_list \in MatchLists /\ detected \in DetectedInputs
            \/ \E c \in LongCalls : match_list = c[1] /\ detected = c[2]
       ELSE IF fn \in {"matches_source_version", "matches_target_version"}
       THEN /\ match_list \in {Tuple(l) : l \in SeqsUpTo(WrapperArguments, MaxListLen)}
            /\ detected = None
       ELSE match_list = None /\ detected = None
    /\ IF fn \in {"matches_source_version", "matches_target_version"}
       THEN configuration \in [source : ConfiguredVersions, target : ConfiguredVersions]
       ELSE configuration = NoConfiguration
    /\ IF fn = "matches_release"
       THEN allowed_releases \in AllowedInputs /\ release \in ReleaseInputs
       ELSE allowed_releases = None /\ release = None
    /\ IF fn = "is_supported_version"
       THEN env \in Environs
       ELSE env = Dict(<<>>)
    /\ IF fn \in {"current_version", "is_supported_version"}
       THEN facts \in FactsInputs
       ELSE facts = <<>>

CallMatchesVersion ==
    /\ pc = "call" /\ fn = "matches_version"
    /\ result' = matches_version(match_list, detected)
    /\ pc' = "done"
    /\ UNCHANGED <<fn, match_list, detected, configuration, allowed_releases, release, env,
                   facts, warnings>>

CallMatchesSourceVersion ==
    /\ pc = "call" /\ fn = "matches_source_version"
    /\ result' = matches_source_version(match_list, configuration)
    /\ pc' = "done"
    /\ UNCHANGED <<fn, match_list, detected, configuration, allowed_releases, release,
                   env, facts, warnings>>

CallMatchesTargetVersion ==
    /\ pc = "call" /\ fn = "matches_target_version"
    /\ result' = matches_target_version(match_list, configuration)
    /\ pc' = "done"
    /\ UNCHANGED <<fn, match_list, detected, configuration, allowed_releases, release,
                   env, facts, warnings>>

CallMatchesRelease ==
    /\ pc = "call" /\ fn = "matches_release"
    /\ result' = matches_release(allowed_releases, release)
    /\ pc' = "done"
    /\ UNCHANGED <<fn, match_list, detected, configuration, allowed_releases, release, env,
                   facts, warnings>>

CallCurrentVersion ==
    /\ pc = "call" /\ fn = "current_version"
    /\ result' = current_version(facts)
    /\ warnings' = warnings + current_version_warnings(facts)
    /\ pc' = "done"
    /\ UNCHANGED <<fn, match_list, detected, configuration, allowed_releases, release, env, facts>>

CallIsSupportedVersion ==
    /\ pc = "call" /\ fn = "is_supported_version"
    /\ result' = is_supported_version(env, facts)
    /\ warnings' = warnings + is_supported_version_warnings(env, facts)
    /\ pc' = "done"
    /\ UNCHANGED <<fn, match_list, detected, configuration, allowed_releases, release, env, facts>>

Next ==
    \/ CallMatchesVersion
    \/ CallMatchesSourceVersion
    \/ CallMatchesTargetVersion
    \/ CallMatchesRelease
    \/ CallCurrentVersion
    \/ CallIsSupportedVersion

Spec == Init /\ [][Next]_vars

-----------------------------------------------------------------------------
(* Vocabulary of the properties, stated on the text of the inputs and not  *)
(* through the operators above.                                            *)

Done(f) == pc = "done" /\ fn = f

IsSequence(v) == v.type \in {"list", "tuple"}

AllStrings(v) == \A i \in 1..Len(v.val) : v.val[i].type = "str"

(* <integer>.<integer>: exactly one dot, decimal digits (at least one) on  *)
(* both sides of it, so that both sides read as integers                   *)
WellFormed(s) ==
    \E k \in 2..(Len(s) - 1) :
        /\ s[k] = "."
        /\ \A i \in 1..Len(s) : i # k => s[i] \in DecimalDigits

(* exactly one dot, characters of str.isdigit() (at least one) on both     *)
(* sides of it: a superscript two counts, though it reads as no integer    *)
DigitSegments(s) ==
    \E k \in 2..(Len(s) - 1) :
        /\ s[k] = "."
        /\ \A i \in 1..Len(s) : i # k => s[i] \in Digits

(* positions where a token starts, and the token starting there *)
TokenStarts(s) ==
    {i \in 1..Len(s) : s[i] \notin Whitespace /\ (i = 1 \/ s[i - 1] \in Whitespace)}

TokenAt(s, i) ==
    LET last == CHOOSE j \in i..Len(s) :
                    /\ \A k \in i..j : s[k] \notin Whitespace
                    /\ (j = Len(s) \/ s[j + 1] \in Whitespace)
    IN  SubSeq(s, i, last)

FirstToken(s) == TokenAt(s, CHOOSE i \in TokenStarts(s) : \A j \in TokenStarts(s) : i <= j)

LastToken(s) == TokenAt(s, CHOOSE i \in TokenStarts(s) : \A j \in TokenStarts(s) : i >= j)

SingleToken(s) == Cardinality(TokenStarts(s)) = 1

OperatorAndToken(s) == Cardinality(TokenStarts(s)) = 2 /\ FirstToken(s) \in OP_MAP

AllSingleToken(v) == \A i \in 1..Len(v.val) : SingleToken(v.val[i].val)

AllOperatorAndToken(v) == \A i \in 1..Len(v.val) : OperatorAndToken(v.val[i].val)

(* detected is one of the versions written from numbers *)
DetectedWritten == \E v \in DetectedVersions : detected = Str(VerText(v))

AllVersionsWritten(v) ==
    \A i \in 1..Len(v.val) : \E w \in SimpleVersions : v.val[i] = Str(VerText(w))

(* the two sides of the dot of a well-formed version *)
MajorText(s) == SubSeq(s, 1, (CHOOSE k \in 1..Len(s) : s[k] = ".") - 1)

MinorText(s) == SubSeq(s, (CHOOSE k \in 1..Len(s) : s[k] = ".") + 1, Len(s))

(* a numeral without its leading zeros (zero is the empty numeral) *)
Significant(n) ==
    IF \A i \in 1..Len(n) : DigitValue(n[i]) = 0 THEN <<>>
    ELSE SubSeq(n, CHOOSE i \in 1..Len(n) :
                       /\ DigitValue(n[i]) # 0
                       /\ \A j \in 1..(i - 1) : DigitValue(n[j]) = 0,
                Len(n))

(* order of the integers two numerals denote, read off their digits: the   *)
(* shorter is smaller, at equal length the first differing digit decides   *)
NumeralBefore(m, n) ==
    LET x == Significant(m)
        y == Significant(n)
    IN  IF Len(x) # Len(y) THEN Len(x) < Len(y)
        ELSE \E i \in 1..Len(x) :
                /\ DigitValue(x[i]) < DigitValue(y[i])
                /\ \A j \in 1..(i - 1) : DigitValue(x[j]) = DigitValue(y[j])

NumeralSame(m, n) ==
    LET x == Significant(m)
        y == Significant(n)
    IN  Len(x) = Len(y) /\ \A i \in 1..Len(x) : DigitValue(x[i]) = DigitValue(y[i])

(* order of versions as (major, minor) pairs of integers *)
Before(v, w) ==
    \/ NumeralBefore(MajorText(v), MajorText(w))
    \/ /\ NumeralSame(MajorText(v), MajorText(w))
       /\ NumeralBefore(MinorText(v), MinorText(w))

Same(v, w) ==
    NumeralSame(MajorText(v), MajorText(w)) /\ NumeralSame(MinorText(v), MinorText(w))

(* the constraint e (operator, blanks, version) holds of the version d *)
Holds(e, d) ==
    LET op == FirstToken(e)
        ver == LastToken(e)
    IN  CASE op = <<">">> -> Before(ver, d)
          [] op = <<">", "=">> -> Before(ver, d) \/ Same(ver, d)
          [] op = <<"<">> -> Before(d, ver)
          [] op = <<"<", "=">> -> Before(d, ver) \/ Same(ver, d)

(* the variable is present in the environment, and its value *)
SkipVarSet == \E i \in 1..Len(env.val) : env.val[i][1] = Str(SKIP_VAR)

SkipVarValue == env.val[CHOOSE i \in 1..Len(env.val) : env.val[i][1] = Str(SKIP_VAR)][2].val

Text76 == VerText(Ver(7, 6, FALSE))

-----------------------------------------------------------------------------
(* C1: for a well-formed detected version and a non-empty list of          *)
(* '<op> <int>.<int>' constraints, matches_version returns True exactly    *)
(* when every constraint holds of the versions compared as (major, minor)  *)
(* pairs of integers, and False otherwise.                                 *)
C1_ComparisonIsAnd ==
    (/\ Done("matches_version")
     /\ IsSequence(match_list) /\ Len(match_list.val) >= 1
     /\ AllStrings(match_list)
     /\ AllOperatorAndToken(match_list)
     /\ \A i \in 1..Len(match_list.val) : WellFormed(LastToken(match_list.val[i].val))
     /\ detected.type = "str" /\ WellFormed(detected.val))
    => result = Return(Bool(\A i \in 1..Len(match_list.val) :
                               Holds(match_list.val[i].val, detected.val)))

(* C2: for a well-formed detected version and a non-empty list of          *)
(* well-formed single-token versions, matches_version returns True exactly *)
(* when detected is the same string as some element, and False otherwise.  *)
C2_SimpleIsOrOfExactStrings ==
    (/\ Done("matches_version")
     /\ IsSequence(match_list) /\ Len(match_list.val) >= 1
     /\ AllVersionsWritten(match_list)
     /\ DetectedWritten)
    => result = Return(Bool(\E i \in 1..Len(match_list.val) :
                               match_list.val[i].val = detected.val))

(* '07.6' does not match ['7.6'] *)
C2_Witness ==
    /\ Done("matches_version")
    /\ match_list = List(<<Str(VerText(Ver(7, 6, FALSE)))>>)
    /\ detected = Str(VerText(Ver(7, 6, TRUE)))
    /\ result = Return(Bool(FALSE))

(* C3: for a well-formed detected version, a non-empty list of strings     *)
(* that is neither all single tokens nor all operator-and-token pairs      *)
(* raises ValueError; and no non-empty list is of both forms.              *)
C3_FormsCannotBeMixed ==
    (/\ Done("matches_version")
     /\ IsSequence(match_list) /\ Len(match_list.val) >= 1
     /\ AllStrings(match_list))
    => /\ (/\ DetectedWritten
           /\ ~AllSingleToken(match_list)
           /\ ~AllOperatorAndToken(match_list))
          => result = Raise("ValueError")
       /\ LET strs == [i \in 1..Len(match_list.val) |-> match_list.val[i].val]
          IN  ~(_simple_versions(strs) /\ _cmp_versions(strs))

(* ['7.6', '>= 7.6'] with detected '7.6' *)
C3_Witness ==
    /\ Done("matches_version")
    /\ match_list = List(<<Str(VerText(Ver(7, 6, FALSE))),
                           Str(ConstraintText(Constraint(<<">", "=">>, Ver(7, 6, FALSE))))>>)
    /\ detected = Str(VerText(Ver(7, 6, FALSE)))
    /\ result = Raise("ValueError")

(* C4: a match_list that is not a list or tuple, an element that is not a  *)
(* string, or a detected that is not a string raises TypeError, whatever   *)
(* the format of the strings that are there.                               *)
C4_TypeErrorsFirst ==
    (/\ Done("matches_version")
     /\ \/ ~IsSequence(match_list)
        \/ ~AllStrings(match_list)
        \/ detected.type # "str")
    => result = Raise("TypeError")

(* a non-string element next to a malformed one, and a malformed detected *)
C4_Witness ==
    /\ Done("matches_version")
    /\ match_list = List(<<Str(<<"7", ".", "x">>), IntVal(<<"7">>)>>)
    /\ detected = Str(<<"7", ".", "x">>)
    /\ result = Raise("TypeError")

(* C5, as claimed: an empty match list with a well-formed detected version *)
(* gives True.                                                             *)
C5_EmptyListIsTrue ==
    (/\ Done("matches_version")
     /\ IsSequence(match_list) /\ Len(match_list.val) = 0
     /\ DetectedWritten)
    => result = Return(Bool(TRUE))

(* C5, amended: an empty match list with a well-formed detected version    *)
(* gives False (it is of the simple form, and the OR over no element is    *)
(* false); it is not an error.                                             *)
C5_EmptyListIsFalse ==
    (/\ Done("matches_version")
     /\ IsSequence(match_list) /\ Len(match_list.val) = 0
     /\ DetectedWritten)
    => result = Return(Bool(FALSE))

C5_Witness ==
    /\ Done("matches_version")
    /\ match_list = List(<<>>)
    /\ detected = Str(Text76)
    /\ result = Return(Bool(FALSE))

(* C6, as claimed: whenever LEAPP_SKIP_CHECK_OS_RELEASE is present in the  *)
(* environment, whatever its value, is_supported_version returns True      *)
(* without consulting the OS facts.                                        *)
C6_SkipWheneverSet ==
    (Done("is_supported_version") /\ SkipVarSet)
    => result = Return(Bool(TRUE)) /\ warnings = 0

(* C6, amended: whenever LEAPP_SKIP_CHECK_OS_RELEASE is set to a non-empty *)
(* value, is_supported_version returns True without consulting the OS      *)
(* facts: no error without facts, no warning with several.                 *)
C6_SkipWhenSetNonEmpty ==
    (Done("is_supported_version") /\ SkipVarSet /\ Len(SkipVarValue) > 0)
    => result = Return(Bool(TRUE)) /\ warnings = 0

(* set to '0', no facts at all *)
C6_Witness ==
    /\ Done("is_supported_version")
    /\ SkipVarSet /\ SkipVarValue = <<"0">>
    /\ facts = <<>>
    /\ result = Return(Bool(TRUE))

(* C7: without the override and with facts, is_supported_version is False  *)
(* for a release that is not in the table, whatever the version id; for    *)
(* rhel it is the result of matches_version on the table's list: True for  *)
(* 7.6 only, False for another well-formed version, and a ValueError only  *)
(* for rhel with a malformed version id (always, when the id is not even   *)
(* two segments of digit characters).                                      *)
C7_SupportedTable ==
    (/\ Done("is_supported_version")
     /\ ~(SkipVarSet /\ Len(SkipVarValue) > 0)
     /\ Len(facts) >= 1)
    => LET rid == facts[1].release_id
           vid == facts[1].version_id
       IN  /\ rid # Str(rhel) => result = Return(Bool(FALSE))
           /\ rid = Str(rhel) =>
                 result = matches_version(List(<<Str(Text76)>>), vid)
           /\ result = Return(Bool(TRUE)) <=> (rid = Str(rhel) /\ vid.val = Text76)
           /\ (rid = Str(rhel) /\ WellFormed(vid.val) /\ vid.val # Text76)
                 => result = Return(Bool(FALSE))
           /\ result.exc # "none"
                 => result = Raise("ValueError") /\ rid = Str(rhel) /\ ~WellFormed(vid.val)
           /\ (rid = Str(rhel) /\ ~DigitSegments(vid.val))
                 => result = Raise("ValueError")

(* an unsupported release with a malformed version id: False, no error *)
C7_Witness ==
    /\ Done("is_supported_version")
    /\ ~SkipVarSet
    /\ Len(facts) >= 1
    /\ facts[1] = OSReleaseFacts(Str(centos), Str(<<"7", ".", "x">>))
    /\ result = Return(Bool(FALSE))

(* C8: current_version raises StopActorExecutionError without records,     *)
(* returns the pair of the first record otherwise, and warns exactly when  *)
(* there are two records or more; the error leaves is_supported_version    *)
(* unchanged.                                                              *)
C8_CurrentVersion ==
    /\ Done("current_version") =>
         /\ Len(facts) = 0 => result = Raise("StopActorExecutionError")
         /\ Len(facts) >= 1
               => result = Return(Tuple(<<facts[1].release_id, facts[1].version_id>>))
         /\ warnings >= 1 <=> Len(facts) >= 2
    /\ (/\ Done("is_supported_version")
        /\ ~(SkipVarSet /\ Len(SkipVarValue) > 0)
        /\ Len(facts) = 0)
       => result = Raise("StopActorExecutionError")

(* two different records: the first is returned, one warning *)
C8_Witness ==
    /\ Done("current_version")
    /\ Len(facts) = 2
    /\ facts[1] # facts[2]
    /\ warnings = 1
    /\ result = Return(Tuple(<<facts[1].release_id, facts[1].version_id>>))

(* C9: matches_release never raises; it is False when the release or the   *)
(* collection is empty or absent, and otherwise True exactly when the      *)
(* release is a key (dict) or an element (sequence) of the collection.     *)
C9_MatchesRelease ==
    Done("matches_release") =>
        /\ result.exc = "none"
        /\ IF release = None \/ release.val = <<>>
              \/ allowed_releases = None \/ allowed_releases.val = <<>>
           THEN result = Return(Bool(FALSE))
           ELSE result = Return(Bool(
                   \E i \in 1..Len(allowed_releases.val) :
                       release = (IF allowed_releases.type = "dict"
                                  THEN allowed_releases.val[i][1]
                                  ELSE allowed_releases.val[i])))

(* the empty release is not matched even by a list that holds it *)
C9_Witness ==
    /\ Done("matches_release")
    /\ release = Str(<<>>)
    /\ allowed_releases = List(<<Str(<<>>)>>)
    /\ result = Return(Bool(FALSE))

(* C10: for arguments of the right types, matches_version returns a        *)
(* boolean only when detected and every version of the list are            *)
(* well-formed; a malformed detected, a malformed element of a simple      *)
(* list, or a malformed version of a constraint raises ValueError.         *)
C10_NoPartialResults ==
    (/\ Done("matches_version")
     /\ IsSequence(match_list) /\ AllStrings(match_list)
     /\ detected.type = "str")
    => LET n == Len(match_list.val)
           text(i) == match_list.val[i].val
       IN  /\ result.exc = "none" =>
                /\ WellFormed(detected.val)
                /\ \/ AllSingleToken(match_list)
                         /\ \A i \in 1..n : WellFormed(text(i))
                   \/ AllOperatorAndToken(match_list)
                         /\ \A i \in 1..n : WellFormed(LastToken(text(i)))
           /\ ~WellFormed(detected.val) => result = Raise("ValueError")
           /\ (AllSingleToken(match_list) /\ \E i \in 1..n : ~WellFormed(text(i)))
                 => result = Raise("ValueError")
           /\ (AllOperatorAndToken(match_list)
                  /\ \E i \in 1..n : ~WellFormed(LastToken(text(i))))
                 => result = Raise("ValueError")

====
